---- MODULE Spec2Model ----
(***************************************************************************)
(* Model of instascribe.py: the per-conversation pipeline                  *)
(* (process_single_conversation) and the loop of main() that drives it.    *)
(*                                                                         *)
(* Text is a sequence of Unicode code points, so that fix_encoding,        *)
(* lower(), strip(), split() and the substring tests are computed as the   *)
(* Python code computes them.  A JSON object is a function whose DOMAIN is *)
(* the set of keys that are present (dict.get(k, d) is Get(d, k, default)).*)
(***************************************************************************)
EXTENDS Integers, Sequences, FiniteSets, TLC

(***************************************************************************)
(* Text helpers                                                            *)
(***************************************************************************)
\* The printable ASCII characters 32..95 and 97..126.
AsciiLow == " !\"#$%&'()*+,-./0123456789:;<=>?@ABCDEFGHIJKLMNOPQRSTUVWXYZ[\\]^_"

AsciiHigh == "abcdefghijklmnopqrstuvwxyz{|}~"

\* The code point of each printable ASCII character.
Ord ==
    [c \in {SubSeq(AsciiLow, i, i) : i \in 1..Len(AsciiLow)}
            \cup {SubSeq(AsciiHigh, i, i) : i \in 1..Len(AsciiHigh)} |->
        IF \E i \in 1..Len(AsciiLow) : SubSeq(AsciiLow, i, i) = c
        THEN 31 + (CHOOSE i \in 1..Len(AsciiLow) : SubSeq(AsciiLow, i, i) = c)
        ELSE 96 + (CHOOSE i \in 1..Len(AsciiHigh) : SubSeq(AsciiHigh, i, i) = c)]

\* The code points of an ASCII literal.
S(str) == [i \in 1..Len(str) |-> Ord[SubSeq(str, i, i)]]

\* Python None where a text is expected (no code point is negative).
NoneText == <<-1>>

\* dict.get(key, default)
Get(d, key, default) == IF key \in DOMAIN d THEN d[key] ELSE default

\* needle in hay
Contains(needle, hay) ==
    \E i \in 0..(Len(hay) - Len(needle)) : SubSeq(hay, i + 1, i + Len(needle)) = needle

StartsWith(text, prefix) ==
    Len(prefix) <= Len(text) /\ SubSeq(text, 1, Len(prefix)) = prefix

\* str.lower() on the Basic Latin and Latin-1 letters.
Lower(text) ==
    [i \in 1..Len(text) |->
        IF text[i] \in 65..90 \/ text[i] \in (192..222) \ {215}
        THEN text[i] + 32 ELSE text[i]]

Whitespace == {9, 10, 11, 12, 13, 28, 29, 30, 31, 32, 133, 160}

RECURSIVE LStrip(_)
LStrip(text) ==
    IF text # <<>> /\ text[1] \in Whitespace THEN LStrip(Tail(text)) ELSE text

RECURSIVE RStrip(_)
RStrip(text) ==
    IF text # <<>> /\ text[Len(text)] \in Whitespace
    THEN RStrip(SubSeq(text, 1, Len(text) - 1)) ELSE text

\* str.strip()
Strip(text) == RStrip(LStrip(text))

\* text.split(c)[0]
BeforeFirst(text, c) ==
    IF \E i \in 1..Len(text) : text[i] = c
    THEN SubSeq(text, 1, (CHOOSE i \in 1..Len(text) :
                            text[i] = c /\ \A j \in 1..(i - 1) : text[j] # c) - 1)
    ELSE text

\* text.split(c)[-1]
AfterLast(text, c) ==
    IF \E i \in 1..Len(text) : text[i] = c
    THEN SubSeq(text, (CHOOSE i \in 1..Len(text) :
                         text[i] = c /\ \A j \in (i + 1)..Len(text) : text[j] # c) + 1,
                Len(text))
    ELSE text

\* text.replace(a, b) for single characters
ReplaceChar(text, a, b) == [i \in 1..Len(text) |-> IF text[i] = a THEN b ELSE text[i]]

RECURSIVE Digits(_)
Digits(n) == IF n < 10 THEN <<48 + n>> ELSE Digits(n \div 10) \o <<48 + (n % 10)>>

\* f"{n:02d}" for n >= 0
Pad2(n) == IF n < 10 THEN <<48>> \o Digits(n) ELSE Digits(n)

\* f"{n:04d}" for n >= 0
Pad4(n) == IF n < 10 THEN <<48, 48, 48>> \o Digits(n)
           ELSE IF n < 100 THEN <<48, 48>> \o Digits(n)
           ELSE IF n < 1000 THEN <<48>> \o Digits(n)
           ELSE Digits(n)

(***************************************************************************)
(* fix_encoding: text.encode('latin1').decode('utf8'), the text unchanged  *)
(* when either step raises.                                                *)
(***************************************************************************)
\* Length of the UTF-8 sequence a lead byte announces; 0 for a byte that
\* cannot start one.
Utf8SeqLen(b) ==
    IF b < 128 THEN 1
    ELSE IF b \in 194..223 THEN 2
    ELSE IF b \in 224..239 THEN 3
    ELSE IF b \in 240..244 THEN 4
    ELSE 0

\* The range allowed for the second byte of a sequence, by lead byte.
Utf8Second(b) ==
    IF b = 224 THEN 160..191
    ELSE IF b = 237 THEN 128..159
    ELSE IF b = 240 THEN 144..191
    ELSE IF b = 244 THEN 128..143
    ELSE 128..191

IsContinuationByte(b) == b \in 128..191

\* bytes is well-formed UTF-8: every lead byte is followed by the
\* continuation bytes it announces, and every continuation byte belongs
\* to the sequence of a lead byte.
Utf8Valid(bytes) ==
    \A i \in 1..Len(bytes) :
        IF IsContinuationByte(bytes[i])
        THEN \E h \in 1..(i - 1) :
                /\ ~IsContinuationByte(bytes[h])
                /\ Utf8SeqLen(bytes[h]) >= i - h + 1
                /\ \A j \in (h + 1)..i : IsContinuationByte(bytes[j])
        ELSE LET n == Utf8SeqLen(bytes[i])
             IN  /\ n > 0
                 /\ i + n - 1 <= Len(bytes)
                 /\ \A j \in (i + 1)..(i + n - 1) : IsContinuationByte(bytes[j])
                 /\ n >= 2 => bytes[i + 1] \in Utf8Second(bytes[i])

\* The code point of the sequence that starts at byte i.
Utf8CodePoint(bytes, i) ==
    LET n == Utf8SeqLen(bytes[i])
    IN  IF n = 1 THEN bytes[i]
        ELSE IF n = 2 THEN (bytes[i] - 192) * 64 + (bytes[i + 1] - 128)
        ELSE IF n = 3 THEN (bytes[i] - 224) * 4096 + (bytes[i + 1] - 128) * 64
                           + (bytes[i + 2] - 128)
        ELSE (bytes[i] - 240) * 262144 + (bytes[i + 1] - 128) * 4096
             + (bytes[i + 2] - 128) * 64 + (bytes[i + 3] - 128)

\* The code points of well-formed bytes.
Utf8Decode(bytes) ==
    LET leads == SelectSeq([i \in 1..Len(bytes) |-> i],
                           LAMBDA i : ~IsContinuationByte(bytes[i]))
    IN  [n \in 1..Len(leads) |-> Utf8CodePoint(bytes, leads[n])]

fix_encoding(text) ==
    IF text = NoneText THEN <<>>
    ELSE IF \E i \in 1..Len(text) : text[i] > 255 THEN text
    ELSE IF Utf8Valid(text) THEN Utf8Decode(text)
    ELSE text

\* url.split('?')[0], "" for an empty url
clean_url(url) == IF url = <<>> THEN <<>> ELSE BeforeFirst(url, 63)

\* format_duration without the test for zero.
format_duration_NoMissed(seconds) ==
    Pad2(seconds \div 60) \o S(":") \o Pad2(seconds % 60)

format_duration(seconds) ==
    IF seconds = 0 THEN S("MISSED/CANCELLED")
    ELSE Pad2(seconds \div 60) \o S(":") \o Pad2(seconds % 60)

\* len(text.split('\n')) lines of text, in order.
RECURSIVE SplitLines(_)
SplitLines(text) ==
    IF \E i \in 1..Len(text) : text[i] = 10
    THEN <<BeforeFirst(text, 10)>>
         \o SplitLines(SubSeq(text, Len(BeforeFirst(text, 10)) + 2, Len(text)))
    ELSE <<text>>

\* " ".join(lines)
RECURSIVE JoinWith(_, _)
JoinWith(sep, texts) ==
    IF texts = <<>> THEN <<>>
    ELSE IF Len(texts) = 1 THEN texts[1]
    ELSE texts[1] \o sep \o JoinWith(sep, Tail(texts))

RECURSIVE SelectLines(_, _)
SelectLines(texts, phrases) ==
    IF texts = <<>> THEN <<>>
    ELSE (IF \E p \in phrases : Contains(p, Lower(texts[1])) THEN <<>> ELSE <<texts[1]>>)
         \o SelectLines(Tail(texts), phrases)

\* The characters the regular expression \w matches, up to U+00FF.
IsWord(cp) ==
    \/ cp \in 48..57 \/ cp \in 65..90 \/ cp \in 97..122 \/ cp = 95
    \/ cp \in {170, 178, 179, 181, 185, 186, 188, 189, 190}
    \/ cp \in 192..214 \/ cp \in 216..246 \/ cp \in 248..255

\* re.sub(r'#\w+', '', text): a '#' ahead of a word character goes, and so
\* does the run of word characters after it.
RemoveHashtags(text) ==
    LET removed(i) ==
            \/ text[i] = 35 /\ i < Len(text) /\ IsWord(text[i + 1])
            \/ /\ IsWord(text[i])
               /\ \E h \in 1..(i - 1) :
                     text[h] = 35 /\ \A j \in (h + 1)..i : IsWord(text[j])
        kept == SelectSeq([i \in 1..Len(text) |-> i], LAMBDA i : ~removed(i))
    IN  [n \in 1..Len(kept) |-> text[kept[n]]]

spam_phrases == {S("follow @"), S("dm for"), S("credit:"), S("tag a"), S("repost"),
                 S("link in bio"), S("subscribe")}

clean_caption(text) ==
    Strip(JoinWith(S(" "), SelectLines(SplitLines(RemoveHashtags(text)), spam_phrases)))

(***************************************************************************)
(* strftime of a local time, for the proleptic Gregorian calendar.         *)
(***************************************************************************)
DayMs == 86400000

DayNames == <<S("Sunday"), S("Monday"), S("Tuesday"), S("Wednesday"), S("Thursday"),
              S("Friday"), S("Saturday")>>

\* The civil date of a day number counted from 1970-01-01, as <<y, m, d>>.
CivilFromDays(z) ==
    LET zz  == z + 719468
        era == zz \div 146097
        doe == zz - era * 146097
        yoe == (doe - doe \div 1460 + doe \div 36524 - doe \div 146096) \div 365
        doy == doe - (365 * yoe + yoe \div 4 - yoe \div 100)
        mp  == (5 * doy + 2) \div 153
        d   == doy - (153 * mp + 2) \div 5 + 1
        m   == IF mp < 10 THEN mp + 3 ELSE mp - 9
        y   == yoe + era * 400 + (IF m <= 2 THEN 1 ELSE 0)
    IN  <<y, m, d>>

\* strftime('%Y-%m-%d (%A)') of the local time localMs milliseconds after
\* the epoch
FormatDate(localMs) ==
    LET z == localMs \div DayMs
        c == CivilFromDays(z)
    IN  Pad4(c[1]) \o S("-") \o Pad2(c[2]) \o S("-") \o Pad2(c[3])
        \o S(" (") \o DayNames[((z + 4) % 7) + 1] \o S(")")

\* strftime('%H:%M')
FormatTime(localMs) ==
    LET t == localMs % DayMs
    IN  Pad2(t \div 3600000) \o S(":") \o Pad2((t % 3600000) \div 60000)

\* f"{ms / 1000 / 3600:.1f}": the nearest tenth of an hour.
FormatHours(ms) ==
    LET tenths == (ms + 180000) \div 360000
    IN  Digits(tenths \div 10) \o S(".") \o Digits(tenths % 10)

(***************************************************************************)
(* State                                                                   *)
(***************************************************************************)
VARIABLES
    disk,               \* path -> the message_*.json files of the folder, in
                        \* filename order; a file is [readable, data]
    to_process,         \* main: the selected conversation descriptors
    user_name,          \* main: the owner's name
    self_aware_input,   \* main: "y" when [YOU]/[CONTACT] labelling is on
    meta_choice,        \* main: the metadata density, "1".."4"
    global_output_path, \* main: <<>> (None) or <<dir>>
    tz_offset,          \* the host's local time offset from UTC, in ms
    pc,                 \* where the run is
    ci,                 \* main: index of the conversation of the for loop
    out_files,          \* the files written: final_path -> transcript
    fi,                 \* index into json_files of the file loop
    all_messages,
    mi,                 \* index into all_messages of the message loop
    cleaned_output,     \* the lines appended so far, each [kind, src, text]
    last_date,          \* <<>> (None) or <<date string>>
    last_sender,        \* <<>> (None) or <<sender>>
    last_timestamp,
    content             \* the value of content when the last iteration ended

vars == <<disk, to_process, user_name, self_aware_input, meta_choice,
          global_output_path, tz_offset, pc, ci, out_files, fi, all_messages,
          mi, cleaned_output, last_date, last_sender, last_timestamp, content>>

inputs == <<disk, to_process, user_name, self_aware_input, meta_choice,
            global_output_path, tz_offset>>

walk == <<mi, cleaned_output, last_date, last_sender, last_timestamp, content>>

GAP_THRESHOLD_MS == 6 * 3600 * 1000

GROUPING_THRESHOLD_MS == 5 * 60 * 1000

UNSENT == S("[MESSAGE_UNSENT_BY_USER]")

GEOBLOCKED == S("[CONTENT_GEOBLOCKED_FOR_RECIPIENT]")

STICKER == S("[SENT_A_STICKER]")

VOICE_NOTE == S("[VOICE_NOTE_SENT]")

UnsentNotice == S("unsent a message")

SystemPhrases == {S("sent an attachment."), S("Liked a message"), S("Reacted ")}

\* "  ↳ "
ContinuationHeader == <<32, 32, 8627, 32>>

\* "\n    └─ ["
BranchOpen == <<10, 32, 32, 32, 32, 9492, 9472, 32, 91>>

\* bool(v) of a JSON list or object
Truthy(v) == DOMAIN v # {}

(***************************************************************************)
(* The body of the message loop, as functions of the message               *)
(***************************************************************************)
ts_ms(msg) == Get(msg, "timestamp_ms", 0)

curr_date(msg) == FormatDate(ts_ms(msg) + tz_offset)

curr_time(msg) == FormatTime(ts_ms(msg) + tz_offset)

sender_raw(msg) == fix_encoding(Get(msg, "sender_name", S("Unknown")))

sender_display(msg) ==
    IF self_aware_input = "y"
    THEN S("[") \o (IF Lower(sender_raw(msg)) = Lower(user_name)
                    THEN S("YOU") ELSE S("CONTACT"))
         \o S("] ") \o sender_raw(msg)
    ELSE sender_raw(msg)

raw_content(msg) == fix_encoding(Get(msg, "content", <<>>))

is_unsent(msg) ==
    Get(msg, "is_unsent", FALSE) \/ Contains(UnsentNotice, Lower(raw_content(msg)))

is_geoblocked(msg) == Get(msg, "is_geoblocked_for_viewer", FALSE)

is_sticker(msg) == "sticker" \in DOMAIN msg

is_voice(msg) == "audio_files" \in DOMAIN msg

is_sys_msg(msg) == \E p \in SystemPhrases : Contains(p, raw_content(msg))

\* The chain with the geo-block test ahead of the unsent test.
ClassifiedContent_GeoFirst(msg) ==
    IF is_geoblocked(msg) THEN GEOBLOCKED
    ELSE IF is_unsent(msg) THEN UNSENT
    ELSE IF is_sticker(msg) THEN STICKER
    ELSE IF is_voice(msg) THEN VOICE_NOTE
    ELSE IF is_sys_msg(msg) THEN <<>>
    ELSE raw_content(msg)

\* The chain with the voice test ahead of the sticker test.
ClassifiedContent_VoiceFirst(msg) ==
    IF is_unsent(msg) THEN UNSENT
    ELSE IF is_geoblocked(msg) THEN GEOBLOCKED
    ELSE IF is_voice(msg) THEN VOICE_NOTE
    ELSE IF is_sticker(msg) THEN STICKER
    ELSE IF is_sys_msg(msg) THEN <<>>
    ELSE raw_content(msg)

\* content after the if/elif chain
ClassifiedContent(msg) ==
    IF is_unsent(msg) THEN UNSENT
    ELSE IF is_geoblocked(msg) THEN GEOBLOCKED
    ELSE IF is_sticker(msg) THEN STICKER
    ELSE IF is_voice(msg) THEN VOICE_NOTE
    ELSE IF is_sys_msg(msg) THEN <<>>
    ELSE raw_content(msg)

\* The call-duration override of content.
CallContent(msg, text) ==
    IF "call_duration" \in DOMAIN msg
    THEN S("[CALL_LOG: ") \o format_duration(msg["call_duration"]) \o S("]")
    ELSE text

share_data(msg) == Get(msg, "share", <<>>)

share_link(msg) == clean_url(Get(share_data(msg), "link", <<>>))

share_caption(msg) == fix_encoding(Get(share_data(msg), "share_text", <<>>))

s_label(msg) ==
    LET link == share_link(msg)
    IN  IF Contains(S("/stories/"), link) THEN S("STORY_CONTEXT")
        ELSE IF Contains(S("giphy.com"), link)
             THEN S("GIF_SENT (Theme: ")
                  \o (IF Contains(S("/"), link)
                      THEN BeforeFirst(ReplaceChar(AfterLast(link, 47), 45, 32), 32)
                      ELSE S("visual"))
                  \o S(")")
        ELSE S("SHARED_LINK")

LinkLine(msg) == BranchOpen \o s_label(msg) \o S("]: ") \o share_link(msg)

short_cap(msg) ==
    LET digest == clean_caption(share_caption(msg))
    IN  IF Len(digest) > 130 THEN SubSeq(digest, 1, 127) \o S("...") ELSE digest

share_block(msg) ==
    IF ~Truthy(share_data(msg)) THEN <<>>
    ELSE IF meta_choice = "1"
         THEN LinkLine(msg)
              \o (IF share_caption(msg) # <<>>
                  THEN BranchOpen \o S("CAPTION]: ") \o share_caption(msg) ELSE <<>>)
    ELSE IF meta_choice = "2"
         THEN LinkLine(msg)
              \o (IF short_cap(msg) # <<>>
                  THEN BranchOpen \o S("CAPTION_DIGEST]: ") \o short_cap(msg) ELSE <<>>)
    ELSE IF meta_choice = "3" THEN LinkLine(msg)
    ELSE <<>>

\* What the metadata strategy makes of content: the label prefix of the
\* strategy None.
ShareContent(msg, text) ==
    IF Truthy(share_data(msg)) /\ meta_choice \notin {"1", "2", "3"}
    THEN Strip(S("[") \o s_label(msg) \o S("] ") \o text)
    ELSE text

\* The photo prefix of content.
PhotoContent(msg, text) ==
    IF Truthy(Get(msg, "photos", <<>>))
    THEN Strip(S("[MEDIA: Photo] ") \o text)
    ELSE text

\* The edited suffix of content.
EditedContent(msg, text) ==
    IF Get(msg, "is_edited", FALSE) THEN text \o S(" (EDITED)") ELSE text

\* content when the iteration reaches the grouping test
FinalContent(msg) ==
    EditedContent(msg, PhotoContent(msg, ShareContent(msg,
        CallContent(msg, ClassifiedContent(msg)))))

reply_context(msg) ==
    LET reply_data == Get(msg, "reply_to_source", <<>>)
    IN  IF Truthy(reply_data)
        THEN S("(Reply to ") \o fix_encoding(Get(reply_data, "sender_name", S("Unknown")))
             \o S(": \"") \o fix_encoding(Get(reply_data, "content", S("[Media]")))
             \o S("\") ") \o <<8627, 32>>
        ELSE <<>>

ReactionTexts(reactions) ==
    [i \in 1..Len(reactions) |->
        fix_encoding(Get(reactions[i], "reaction", NoneText)) \o S(" by ")
        \o fix_encoding(Get(reactions[i], "actor", NoneText))]

reaction_str(msg) ==
    LET reactions == Get(msg, "reactions", <<>>)
    IN  IF Truthy(reactions)
        THEN S(" [Reactions: ") \o JoinWith(S(", "), ReactionTexts(reactions)) \o S("]")
        ELSE <<>>

\* The grouping test with an inclusive bound.
Grouped_Inclusive(msg) ==
    /\ last_sender = <<sender_raw(msg)>>
    /\ ts_ms(msg) - last_timestamp <= GROUPING_THRESHOLD_MS

\* The grouping test on the sender alone.
Grouped_SenderOnly(msg) == last_sender = <<sender_raw(msg)>>

\* The grouping test of the message, against the carried state.
Grouped(msg) ==
    /\ last_sender = <<sender_raw(msg)>>
    /\ ts_ms(msg) - last_timestamp < GROUPING_THRESHOLD_MS

header(msg) ==
    IF Grouped(msg) THEN ContinuationHeader
    ELSE <<10>> \o S("[") \o curr_time(msg) \o S("] ") \o sender_display(msg) \o S(": ")

\* The markers with the gap test made after the date test, not instead
\* of it.
Markers_Both(msg, k) ==
    (IF last_date # <<curr_date(msg)>>
     THEN << [kind |-> "date", src |-> k,
              text |-> <<10>> \o S("=== DATE: ") \o curr_date(msg) \o S(" ===")] >>
     ELSE <<>>)
    \o (IF ts_ms(msg) - last_timestamp > GAP_THRESHOLD_MS
        THEN << [kind |-> "gap", src |-> k,
                 text |-> <<10>> \o S("--- TIME GAP: ")
                          \o FormatHours(ts_ms(msg) - last_timestamp)
                          \o S(" hours ---")] >>
        ELSE <<>>)

\* The marker lines the message appends before its own line.
Markers(msg, k) ==
    IF last_date # <<curr_date(msg)>>
    THEN << [kind |-> "date", src |-> k,
             text |-> <<10>> \o S("=== DATE: ") \o curr_date(msg) \o S(" ===")] >>
    ELSE IF ts_ms(msg) - last_timestamp > GAP_THRESHOLD_MS
         THEN << [kind |-> "gap", src |-> k,
                  text |-> <<10>> \o S("--- TIME GAP: ")
                           \o FormatHours(ts_ms(msg) - last_timestamp)
                           \o S(" hours ---")] >>
    ELSE <<>>

\* Whether the message appends a line of its own.
Emitted(msg) == FinalContent(msg) # <<>> \/ share_block(msg) # <<>>

MessageLine(msg, k) ==
    [kind |-> "msg", src |-> k,
     text |-> header(msg) \o reply_context(msg) \o FinalContent(msg)
              \o reaction_str(msg) \o share_block(msg)]

(***************************************************************************)
(* The merger                                                              *)
(***************************************************************************)
\* The place of msg ahead of the messages of equal key.
InsertByTimestamp_Unstable(msg, sorted) ==
    LET n == Cardinality({i \in 1..Len(sorted) : ts_ms(sorted[i]) < ts_ms(msg)})
    IN  SubSeq(sorted, 1, n) \o <<msg>> \o SubSeq(sorted, n + 1, Len(sorted))

\* The place of msg in an ordered list: after every message whose key is
\* not greater.
InsertByTimestamp(msg, sorted) ==
    LET n == Cardinality({i \in 1..Len(sorted) : ts_ms(sorted[i]) <= ts_ms(msg)})
    IN  SubSeq(sorted, 1, n) \o <<msg>> \o SubSeq(sorted, n + 1, Len(sorted))

\* list.sort(key=lambda x: x.get('timestamp_ms', 0)), a stable sort
RECURSIVE SortByTimestamp(_)
SortByTimestamp(msgs) ==
    IF msgs = <<>> THEN <<>>
    ELSE InsertByTimestamp(msgs[Len(msgs)],
                           SortByTimestamp(SubSeq(msgs, 1, Len(msgs) - 1)))

\* What one fragment adds to all_messages.
FragmentMessages(data, target_thread_title) ==
    IF fix_encoding(Get(data, "title", NoneText)) = target_thread_title
       /\ "messages" \in DOMAIN data
    THEN data["messages"]
    ELSE <<>>

conv == to_process[ci]

json_files == disk[conv.path]

(***************************************************************************)
(* The header block and the output file                                    *)
(***************************************************************************)
meta_labels == [c \in {"1", "2", "3", "4"} |->
                  IF c = "1" THEN "Full" ELSE IF c = "2" THEN "Optimized"
                  ELSE IF c = "3" THEN "Minimal" ELSE "None"]

final_path ==
    <<IF global_output_path # <<>> THEN global_output_path[1] ELSE conv.path,
      "instascribe_" \o conv.folder_id \o ".txt">>

\* The file written: the header block, but for the date of the host's
\* clock, and the lines.
Transcript ==
    [system           |-> "INSTASCRIBE DM DATASET",
     folder_source    |-> conv.folder_id,
     owner_identity   |-> IF user_name # <<>> THEN user_name ELSE S("Not Specified"),
     participants     |-> conv.participants,
     metadata_strategy |-> Get(meta_labels, meta_choice, "Optimized"),
     lines            |-> [i \in 1..Len(cleaned_output) |-> cleaned_output[i].text]]

(***************************************************************************)
(* Actions                                                                 *)
(***************************************************************************)
\* main: the for loop calls process_single_conversation, which lists the
\* folder.
StartConversation ==
    /\ pc = "main"
    /\ ci <= Len(to_process)
    /\ pc' = "read"
    /\ fi' = 1
    /\ all_messages' = <<>>
    /\ mi' = 1
    /\ cleaned_output' = <<>>
    /\ last_date' = <<>>
    /\ last_sender' = <<>>
    /\ last_timestamp' = 0
    /\ content' = <<>>
    /\ UNCHANGED <<inputs, ci, out_files>>

\* One iteration of the file loop: open, json.load, title filter, extend.
ReadFragment ==
    /\ pc = "read"
    /\ fi <= Len(json_files)
    /\ json_files[fi].readable
    /\ all_messages' = all_messages \o FragmentMessages(json_files[fi].data, conv.title)
    /\ fi' = fi + 1
    /\ UNCHANGED <<inputs, pc, ci, out_files, walk>>

\* open or json.load raises: nothing catches it, in
\* process_single_conversation or in main.
ReadFragmentFails ==
    /\ pc = "read"
    /\ fi <= Len(json_files)
    /\ ~json_files[fi].readable
    /\ pc' = "crashed"
    /\ UNCHANGED <<inputs, ci, out_files, fi, all_messages, walk>>

\* The sort and the initialisation of the walk.
SortMessages ==
    /\ pc = "read"
    /\ fi > Len(json_files)
    /\ all_messages' = SortByTimestamp(all_messages)
    /\ pc' = "walk"
    /\ UNCHANGED <<inputs, ci, out_files, fi, walk>>

\* One iteration of the message loop.
ProcessMessage ==
    /\ pc = "walk"
    /\ mi <= Len(all_messages)
    /\ LET msg == all_messages[mi]
       IN  /\ last_date' = <<curr_date(msg)>>
           /\ content' = FinalContent(msg)
           /\ IF Emitted(msg)
              THEN /\ cleaned_output' =
                        cleaned_output \o Markers(msg, mi) \o <<MessageLine(msg, mi)>>
                   /\ last_sender' = <<sender_raw(msg)>>
                   /\ last_timestamp' = ts_ms(msg)
              ELSE /\ cleaned_output' = cleaned_output \o Markers(msg, mi)
                   /\ UNCHANGED <<last_sender, last_timestamp>>
    /\ mi' = mi + 1
    /\ UNCHANGED <<inputs, pc, ci, out_files, fi, all_messages>>

\* The transcript is written and main moves to the next conversation.
WriteTranscript ==
    /\ pc = "walk"
    /\ mi > Len(all_messages)
    /\ out_files' = [p \in DOMAIN out_files \cup {final_path} |->
                        IF p = final_path THEN Transcript ELSE out_files[p]]
    /\ ci' = ci + 1
    /\ pc' = "main"
    /\ UNCHANGED <<inputs, fi, all_messages, walk>>

\* main: the loop is over.
Finish ==
    /\ pc = "main"
    /\ ci > Len(to_process)
    /\ pc' = "done"
    /\ UNCHANGED <<inputs, ci, out_files, fi, all_messages, walk>>

Next ==
    \/ StartConversation
    \/ ReadFragment
    \/ ReadFragmentFails
    \/ SortMessages
    \/ ProcessMessage
    \/ WriteTranscript
    \/ Finish

(***************************************************************************)
(* Runs: the inputs main collects and the export tree it finds             *)
(***************************************************************************)
\* A key that may be absent: no binding, or one binding per value.
Optional(key, values) == {<<>>} \cup {key :> v : v \in values}

File(data) == [readable |-> TRUE, data |-> data]

Malformed == [readable |-> FALSE, data |-> <<>>]

\* find_conversations: the descriptor of a folder, from its message_1.json
Descriptor(path, folder_id, files) ==
    [path |-> path,
     title |-> fix_encoding(Get(files[1].data, "title", S("Unknown"))),
     folder_id |-> folder_id,
     participants |->
        [i \in 1..Len(Get(files[1].data, "participants", <<>>)) |->
            fix_encoding(files[1].data["participants"][i]["name"])]]

\* "ZoÃ«", the mangled form of "Zoë"
MangledTitle == <<90, 111, 195, 171>>

Participants == << [name |-> MangledTitle], [name |-> S("Ann")] >>

Setup(run) ==
    /\ disk = run.disk
    /\ to_process = run.to_process
    /\ user_name = run.user_name
    /\ self_aware_input = run.self_aware_input
    /\ meta_choice = run.meta_choice
    /\ global_output_path = run.global_output_path
    /\ tz_offset = run.tz_offset
    /\ pc = "main"
    /\ ci = 1
    /\ out_files = <<>>
    /\ fi = 1
    /\ all_messages = <<>>
    /\ mi = 1
    /\ cleaned_output = <<>>
    /\ last_date = <<>>
    /\ last_sender = <<>>
    /\ last_timestamp = 0
    /\ content = <<>>

\* A run over one folder.
OneFolder(files, meta, tz, self_aware) ==
    [disk |-> [p \in {"inbox/zoe_1"} |-> files],
     to_process |-> <<Descriptor("inbox/zoe_1", "zoe_1", files)>>,
     user_name |-> IF self_aware = "y" THEN S("ann") ELSE <<>>,
     self_aware_input |-> self_aware,
     meta_choice |-> meta,
     global_output_path |-> <<>>,
     tz_offset |-> tz]

Fragment(title, msgs) ==
    File([title |-> title, participants |-> Participants, messages |-> msgs])

Hello == [sender_name |-> S("Ann"), timestamp_ms |-> 90000000, content |-> S("hi")]

\* A folder whose second fragment cannot be parsed.
BrokenRun == OneFolder(<<Fragment(MangledTitle, <<Hello>>), Malformed>>, "1", 0, "n")

(***************************************************************************)
(* Runs over one message, every combination of its fields                  *)
(***************************************************************************)
Densities == {"1", "2", "3", "4"}

GifShare == [link |-> S("https://giphy.com/gifs/cool-dance-xyz?utm=1"),
             share_text |-> S("so #cool")]

ClassifyMessages ==
    { ((((((([sender_name |-> S("Ann"), timestamp_ms |-> 90000000]
        @@ c) @@ u) @@ g) @@ st) @@ au) @@ cd) @@ sh) @@ ph @@ ed :
        c  \in Optional("content", {S("hi"), S("Liked a message"),
                                    S("You Unsent A Message")}),
        u  \in Optional("is_unsent", {TRUE}),
        g  \in Optional("is_geoblocked_for_viewer", {TRUE}),
        st \in Optional("sticker", {[uri |-> S("s.png")]}),
        au \in Optional("audio_files", {<<[uri |-> S("a.mp4")]>>}),
        cd \in Optional("call_duration", {0, 65}),
        sh \in Optional("share", {GifShare}),
        ph \in Optional("photos", {<<[uri |-> S("p.jpg")]>>}),
        ed \in Optional("is_edited", {TRUE}) }

InitClassify ==
    \/ \E m \in ClassifyMessages, meta \in Densities :
            Setup(OneFolder(<<Fragment(MangledTitle, <<m>>)>>, meta, 0, "n"))
    \/ Setup(BrokenRun)

SpecClassify == InitClassify /\ [][Next]_vars

(***************************************************************************)
(* Runs over a short conversation, for the walk                            *)
(***************************************************************************)
MaxWalkMsgs == 3

\* 23:58:20 UTC of the second day of the epoch
WalkStarts == {172700000}

\* The time from one message to the next.
WalkDeltas == {60000, 299999, 300000, 21600000, 21600001}

\* The host keeps UTC.
TzOffsets == {0}

RECURSIVE WalkTimes(_)
WalkTimes(n) ==
    IF n = 1 THEN {<<t>> : t \in WalkStarts}
    ELSE {ts \o <<ts[n - 1] + d>> : ts \in WalkTimes(n - 1), d \in WalkDeltas}

WalkSenders == {S("Ann"), MangledTitle}

WalkContents == {S("hi"), <<>>}

WalkMessages(n) ==
    { [i \in 1..n |-> [timestamp_ms |-> ts[i], sender_name |-> who[i],
                       content |-> what[i]]] :
        ts \in WalkTimes(n), who \in [1..n -> WalkSenders],
        what \in [1..n -> WalkContents] }

InitWalk ==
    \/ \E n \in 1..MaxWalkMsgs : \E msgs \in WalkMessages(n), tz \in TzOffsets :
            Setup(OneFolder(<<Fragment(MangledTitle, msgs)>>, "1", tz, "y"))
    \/ Setup(BrokenRun)

SpecWalk == InitWalk /\ [][Next]_vars

(***************************************************************************)
(* Runs over a folder of several fragments, for the merger                 *)
(***************************************************************************)
MaxFrags == 2

\* Two messages of one timestamp and a message without a timestamp.
MsgA == [sender_name |-> S("Ann"), timestamp_ms |-> 90000000, content |-> S("a")]

MsgB == [sender_name |-> S("Ann"), timestamp_ms |-> 90000000, content |-> S("b")]

MsgC == [sender_name |-> S("Ann"), content |-> S("c")]

\* The message lists of a fragment.
MergeLists ==
    { <<>>, <<MsgA>>, <<MsgC>>, <<MsgA, MsgB>>, <<MsgB, MsgA>>, <<MsgA, MsgC>>,
      <<MsgC, MsgB>> }

MergeFragments ==
    { File((t @@ ms) @@ [participants |-> Participants]) :
        t \in Optional("title", {MangledTitle, S("Bob")}),
        ms \in Optional("messages", MergeLists) }

InitMerge ==
    \/ \E n \in 1..MaxFrags : \E files \in [1..n -> MergeFragments] :
            Setup(OneFolder(files, "1", 0, "n"))
    \/ Setup(BrokenRun)

SpecMerge == InitMerge /\ [][Next]_vars

(***************************************************************************)
(* Runs over several selected conversations                                *)
(***************************************************************************)
MaxConvs == 2

FolderId(path) == IF path = "inbox/zoe_1" THEN "zoe_1" ELSE "bob_2"

FolderFiles ==
    { <<Fragment(MangledTitle, <<Hello>>)>>,
      <<Fragment(MangledTitle, <<Hello>>), Malformed>>,
      <<Fragment(MangledTitle, <<>>), Fragment(MangledTitle, <<Hello>>)>> }

FolderPaths == {"inbox/zoe_1", "inbox/bob_2"}

\* The selection sel of folders of the export tree d, written to out.
MainRun(d, sel, out) ==
    [disk |-> d,
     to_process |-> [i \in 1..Len(sel) |-> Descriptor(sel[i], FolderId(sel[i]), d[sel[i]])],
     user_name |-> <<>>,
     self_aware_input |-> "n",
     meta_choice |-> "1",
     global_output_path |-> out,
     tz_offset |-> 0]

Init ==
    \E d \in [FolderPaths -> FolderFiles], n \in 1..MaxConvs, out \in {<<>>, <<"out">>} :
        \E sel \in [1..n -> FolderPaths] : Setup(MainRun(d, sel, out))

Spec == Init /\ [][Next]_vars

(***************************************************************************)
(* Properties                                                              *)
(***************************************************************************)
Walking == pc = "walk"

\* The message loop has run at least once; LastMsg is the message of the
\* last iteration.
Stepped == pc = "walk" /\ mi > 1

LastMsg == all_messages[mi - 1]

Lines == 1..Len(cleaned_output)

IsMessageLine(j) == cleaned_output[j].kind = "msg"

IsContinuation(j) ==
    IsMessageLine(j) /\ StartsWith(cleaned_output[j].text, ContinuationHeader)

\* "\n[HH:MM] sender: "
IsFullHeader(j) ==
    /\ IsMessageLine(j)
    /\ StartsWith(cleaned_output[j].text, <<10, 91>>)
    /\ SubSeq(cleaned_output[j].text, 8, 9) = <<93, 32>>

\* The message line before line j, 0 when there is none.
PrevEmitted(j) ==
    IF \E p \in 1..(j - 1) : IsMessageLine(p)
    THEN CHOOSE p \in 1..(j - 1) :
            IsMessageLine(p) /\ \A q \in (p + 1)..(j - 1) : ~IsMessageLine(q)
    ELSE 0

\* The message line after line j, 0 when there is none.
NextEmitted(j) ==
    IF \E q \in (j + 1)..Len(cleaned_output) : IsMessageLine(q)
    THEN CHOOSE q \in (j + 1)..Len(cleaned_output) :
            IsMessageLine(q) /\ \A r \in (j + 1)..(q - 1) : ~IsMessageLine(r)
    ELSE 0

TimeOf(k) == IF "timestamp_ms" \in DOMAIN all_messages[k]
             THEN all_messages[k]["timestamp_ms"] ELSE 0

SenderOf(k) == fix_encoding(all_messages[k]["sender_name"])

LocalDay(k) == (TimeOf(k) + tz_offset) \div 86400000

LineTime(j) == TimeOf(cleaned_output[j].src)

LineSender(j) == SenderOf(cleaned_output[j].src)

MarkersOf(k) == {j \in Lines : cleaned_output[j].src = k /\ ~IsMessageLine(j)}

HasShare(msg) == "share" \in DOMAIN msg /\ DOMAIN msg["share"] # {}

HasPhotos(msg) == "photos" \in DOMAIN msg /\ msg["photos"] # <<>>

IsEdited(msg) == "is_edited" \in DOMAIN msg /\ msg["is_edited"]

HasReactions(msg) == "reactions" \in DOMAIN msg /\ msg["reactions"] # <<>>

RepairedText(msg) == IF "content" \in DOMAIN msg THEN fix_encoding(msg["content"]) ELSE <<>>

\* Classifier rule 1 applies to the message.
UnsentRule(msg) ==
    \/ "is_unsent" \in DOMAIN msg /\ msg["is_unsent"]
    \/ Contains(S("unsent a message"), Lower(RepairedText(msg)))

\* The share label of density None prefixes the content.
LabelPrefixed(msg) == HasShare(msg) /\ meta_choice \notin {"1", "2", "3"}

\* C1 as stated: a message to which the unsent rule applies is rendered
\* with exactly the UNSENT marker as its content, whatever its other fields
\* and the density.
C1_UnsentWhateverElse ==
    Stepped /\ UnsentRule(LastMsg) => content = S("[MESSAGE_UNSENT_BY_USER]")

\* C1, amended: a message to which the unsent rule applies is rendered with
\* exactly the UNSENT marker as its content, whatever its geo-block flag,
\* sticker, audio and text, when it has no call duration, no photos, no
\* edited flag and, under density None, no share payload.
C1_UnsentWins ==
    Stepped /\ UnsentRule(LastMsg)
      /\ "call_duration" \notin DOMAIN LastMsg
      /\ ~HasPhotos(LastMsg) /\ ~IsEdited(LastMsg) /\ ~LabelPrefixed(LastMsg)
    => content = S("[MESSAGE_UNSENT_BY_USER]")

C1_Witness ==
    /\ Stepped
    /\ "is_unsent" \notin DOMAIN LastMsg
    /\ UnsentRule(LastMsg)
    /\ "is_geoblocked_for_viewer" \in DOMAIN LastMsg
    /\ "sticker" \in DOMAIN LastMsg
    /\ "audio_files" \in DOMAIN LastMsg
    /\ HasShare(LastMsg)
    /\ meta_choice = "2"
    /\ "call_duration" \notin DOMAIN LastMsg
    /\ ~HasPhotos(LastMsg) /\ ~IsEdited(LastMsg)
    /\ content = S("[MESSAGE_UNSENT_BY_USER]")

\* C2: processing a message whose final content is empty and that has no
\* share payload and no reactions appends no line and leaves the previous
\* sender and the previous timestamp as they were.
C2_SuppressedSilent ==
    [][ (/\ pc = "walk"
         /\ mi' = mi + 1
         /\ content' = <<>>
         /\ ~HasShare(all_messages[mi])
         /\ ~HasReactions(all_messages[mi]))
        => (/\ cleaned_output' = cleaned_output
            /\ last_sender' = last_sender
            /\ last_timestamp' = last_timestamp) ]_vars

\* C3: a message line is a continuation line exactly when an earlier
\* message line exists, the sender is the sender of the nearest one and the
\* message is less than 300,000 ms later; every other message line has the
\* full header.
C3_Grouping ==
    Walking =>
      \A j \in Lines : IsMessageLine(j) =>
        LET p == PrevEmitted(j)
        IN  /\ IsContinuation(j) <=>
                 (/\ p # 0
                  /\ LineSender(j) = LineSender(p)
                  /\ LineTime(j) - LineTime(p) < 300000)
            /\ IsFullHeader(j) <=> ~IsContinuation(j)

\* Same sender 299,999 ms later: a continuation; 300,000 ms later: a header.
C3_Witness ==
    /\ Walking
    /\ \E j \in Lines : /\ IsContinuation(j)
                        /\ LineTime(j) - LineTime(PrevEmitted(j)) = 299999
    /\ \E j \in Lines : /\ IsFullHeader(j)
                        /\ PrevEmitted(j) # 0
                        /\ LineSender(j) = LineSender(PrevEmitted(j))
                        /\ LineTime(j) - LineTime(PrevEmitted(j)) = 300000

\* C4: a message appends at most one marker, and a message whose local date
\* is not the date of the message before it (or that is the first) appends
\* the date marker, hence no gap marker.
C4_OneMarker ==
    Walking =>
      \A k \in 1..(mi - 1) :
        /\ Cardinality(MarkersOf(k)) <= 1
        /\ (k = 1 \/ LocalDay(k) # LocalDay(k - 1))
             => \E j \in MarkersOf(k) : cleaned_output[j].kind = "date"

\* A new day more than six hours after the message line before it.
C4_Witness ==
    /\ Walking
    /\ \E k \in 2..(mi - 1) :
         /\ LocalDay(k) # LocalDay(k - 1)
         /\ \E p \in Lines : IsMessageLine(p) /\ cleaned_output[p].src = k - 1
         /\ TimeOf(k) - TimeOf(k - 1) > 21600000
         /\ \E j \in Lines : MarkersOf(k) = {j} /\ cleaned_output[j].kind = "date"

\* The two digits of a number below 100.
TwoDigits(n) == <<48 + (n \div 10), 48 + (n % 10)>>

CallMarker(d) ==
    S("[CALL_LOG: ")
    \o (IF d = 0 THEN S("MISSED/CANCELLED")
        ELSE TwoDigits(d \div 60) \o S(":") \o TwoDigits(d % 60))
    \o S("]")

\* C5: a message with a call duration has the CALL_LOG marker in place of
\* its text, MISSED/CANCELLED for zero and MM:SS otherwise, and the content
\* is that marker alone when nothing annotates it.
C5_CallLog ==
    Stepped /\ "call_duration" \in DOMAIN LastMsg =>
      LET d == LastMsg["call_duration"]
      IN  /\ Contains(CallMarker(d), content)
          /\ d = 0 => ~Contains(S("00:00"), content)
          /\ d # 0 => ~Contains(S("MISSED"), content)
          /\ (~HasPhotos(LastMsg) /\ ~IsEdited(LastMsg) /\ ~LabelPrefixed(LastMsg))
               => content = CallMarker(d)
          /\ \A replaced \in {S("[MESSAGE_UNSENT_BY_USER]"),
                              S("[CONTENT_GEOBLOCKED_FOR_RECIPIENT]"),
                              S("[SENT_A_STICKER]"), S("[VOICE_NOTE_SENT]")} :
                ~Contains(replaced, content)
          /\ RepairedText(LastMsg) # <<>> => ~Contains(RepairedText(LastMsg), content)

C5_Witness ==
    /\ Stepped
    /\ "call_duration" \in DOMAIN LastMsg
    /\ LastMsg["call_duration"] = 0
    /\ UnsentRule(LastMsg)
    /\ content = S("[CALL_LOG: MISSED/CANCELLED]")

\* The folder of the conversation being processed.
Folder == disk[to_process[ci].path]

Matches(file) ==
    (IF "title" \in DOMAIN file.data THEN fix_encoding(file.data["title"]) ELSE <<>>)
        = to_process[ci].title

\* The messages of the first n files whose title matches, in file order.
RECURSIVE MatchingMessages(_)
MatchingMessages(n) ==
    IF n = 0 THEN <<>>
    ELSE MatchingMessages(n - 1)
         \o (IF Matches(Folder[n]) /\ "messages" \in DOMAIN Folder[n].data
             THEN Folder[n].data["messages"] ELSE <<>>)

SortKey(msg) == IF "timestamp_ms" \in DOMAIN msg THEN msg["timestamp_ms"] ELSE 0

WithKey(msgs, t) == SelectSeq(msgs, LAMBDA m : SortKey(m) = t)

\* C6: the walk is handed the messages of the matching fragments, all of
\* them and no others, in non-decreasing order of timestamp (none counting
\* as 0), those of equal timestamp in the order of their fragments.
C6_Merged ==
    Walking =>
      LET cat == MatchingMessages(Len(Folder))
      IN  /\ Len(all_messages) = Len(cat)
          /\ \A i \in 1..(Len(all_messages) - 1) :
                SortKey(all_messages[i]) <= SortKey(all_messages[i + 1])
          /\ \A i \in 1..Len(cat) :
                WithKey(all_messages, SortKey(cat[i])) = WithKey(cat, SortKey(cat[i]))

\* Two matching fragments that share a message, out of order.
C6_Witness ==
    /\ Walking
    /\ Len(Folder) = 2
    /\ Matches(Folder[1]) /\ Matches(Folder[2])
    /\ "messages" \in DOMAIN Folder[1].data
    /\ "messages" \in DOMAIN Folder[2].data
    /\ \E i \in 1..Len(Folder[1].data["messages"]) :
         \E j \in 1..Len(Folder[2].data["messages"]) :
            /\ Folder[1].data["messages"][i] = Folder[2].data["messages"][j]
            /\ Len(SelectSeq(all_messages,
                     LAMBDA m : m = Folder[1].data["messages"][i])) >= 2
    /\ all_messages # MatchingMessages(2)
    /\ "timestamp_ms" \notin DOMAIN all_messages[1]

OutputPath(i) ==
    <<IF global_output_path # <<>> THEN global_output_path[1] ELSE to_process[i].path,
      "instascribe_" \o to_process[i].folder_id \o ".txt">>

AllReadable(i) ==
    \A f \in 1..Len(disk[to_process[i].path]) : disk[to_process[i].path][f].readable

\* C7: when the run is over, every selected conversation whose fragments are
\* all readable has its transcript, whatever happened to the others.
C7_SiblingsWritten ==
    pc \in {"done", "crashed"} =>
      \A i \in 1..Len(to_process) : AllReadable(i) => OutputPath(i) \in DOMAIN out_files

\* The outcome of the first matching rule among rules 2 to 6.
RuleOutcome(msg) ==
    CASE "is_geoblocked_for_viewer" \in DOMAIN msg /\ msg["is_geoblocked_for_viewer"]
           -> S("[CONTENT_GEOBLOCKED_FOR_RECIPIENT]")
      [] "sticker" \in DOMAIN msg -> S("[SENT_A_STICKER]")
      [] "audio_files" \in DOMAIN msg -> S("[VOICE_NOTE_SENT]")
      [] \E p \in {S("sent an attachment."), S("Liked a message"), S("Reacted ")} :
            Contains(p, RepairedText(msg)) -> <<>>
      [] OTHER -> RepairedText(msg)

\* C8: without the unsent rule and without a call duration, the content is
\* the outcome of the first matching rule, with the share label, the photo
\* prefix and the edited suffix added to it.
C8_FirstMatch ==
    Stepped /\ ~UnsentRule(LastMsg) /\ "call_duration" \notin DOMAIN LastMsg
    => content = EditedContent(LastMsg, PhotoContent(LastMsg,
                     ShareContent(LastMsg, RuleOutcome(LastMsg))))

\* A voice note whose text is a system-event phrase.
C8_Witness ==
    /\ Stepped
    /\ ~UnsentRule(LastMsg)
    /\ "call_duration" \notin DOMAIN LastMsg
    /\ "is_geoblocked_for_viewer" \notin DOMAIN LastMsg
    /\ "sticker" \notin DOMAIN LastMsg
    /\ "audio_files" \in DOMAIN LastMsg
    /\ RepairedText(LastMsg) = S("Liked a message")
    /\ content = S("[VOICE_NOTE_SENT]")

\* C9: a gap marker stands only where a message line precedes it, the
\* message that set it off has the date of the message before it, and more
\* than 21,600,000 ms lie between the nearest message line before the marker
\* and that message; the marker shows that time in hours.
C9_GapAfterEmitted ==
    Walking =>
      \A j \in Lines : cleaned_output[j].kind = "gap" =>
        LET k == cleaned_output[j].src
            p == PrevEmitted(j)
        IN  /\ p # 0
            /\ k > 1
            /\ LocalDay(k) = LocalDay(k - 1)
            /\ TimeOf(k) - LineTime(p) > 21600000
            /\ cleaned_output[j].text =
                  <<10>> \o S("--- TIME GAP: ") \o FormatHours(TimeOf(k) - LineTime(p))
                  \o S(" hours ---")

\* C10 as stated: the message line after a marker has the full header.
C10_HeaderAfterMarker ==
    Walking =>
      \A j \in Lines : ~IsMessageLine(j) /\ NextEmitted(j) # 0
        => IsFullHeader(NextEmitted(j))

\* C10, amended: the message line after a gap marker has the full header;
\* the message line after a date marker has the full header unless an
\* earlier message line exists, of the same sender and less than 300,000 ms
\* earlier, and is then a continuation line.
C10_HeaderAfterGap ==
    Walking =>
      \A j \in Lines : ~IsMessageLine(j) /\ NextEmitted(j) # 0 =>
        LET q == NextEmitted(j)
            p == PrevEmitted(j)
            near == /\ p # 0
                    /\ LineSender(q) = LineSender(p)
                    /\ LineTime(q) - LineTime(p) < 300000
        IN  /\ cleaned_output[j].kind = "gap" => IsFullHeader(q)
            /\ cleaned_output[j].kind = "date" =>
                 /\ near => IsContinuation(q)
                 /\ ~near => IsFullHeader(q)

\* A continuation across midnight, and a header after a gap marker.
C10_Witness ==
    /\ Walking
    /\ \E j \in Lines : /\ cleaned_output[j].kind = "date"
                        /\ NextEmitted(j) # 0
                        /\ IsContinuation(NextEmitted(j))
    /\ \E j \in Lines : /\ cleaned_output[j].kind = "gap"
                        /\ NextEmitted(j) # 0
                        /\ PrevEmitted(j) # 0
                        /\ LineSender(NextEmitted(j)) = LineSender(PrevEmitted(j))
                        /\ IsFullHeader(NextEmitted(j))

====
